---- MODULE Spec2Model ----
(***************************************************************************)
(* Model of the size-targeting searches of resize-image:                   *)
(*   resizePngToTarget      (src/src/png-resizer.ts)                       *)
(*   resizeJpegToTarget / resizeWebpToTarget -> resizeRasterToTarget,      *)
(*   fitByQuality           (src/src/raster-resizer.ts)                    *)
(*                                                                         *)
(*   resizeToDimensions     (src/src/resize-to-dimensions.ts), the size of *)
(*                          the canvas it draws                            *)
(*                                                                         *)
(* One behaviour is one call of one exported function.  Every action is    *)
(* the code that runs between two awaits: it consumes the result of one    *)
(* encode (canvas.toBlob / UPNG.encode) and runs up to the next one.       *)
(*                                                                         *)
(* Specifications.                                                         *)
(*   Spec           : one call of a size-targeting search                  *)
(*   SpecTwice      : the same call made twice against the same encoder    *)
(*   SpecDimensions : one call of resizeToDimensions                       *)
(*                                                                         *)
(* Numbers.  Scales and qualities are JavaScript doubles in the source.    *)
(* They are modelled as fixed-point integers counted in steps of the       *)
(* convergence threshold 1e-3 of the loops (Unit steps make 1.0), and a    *)
(* midpoint (low + high) / 2 is rounded down to that grid.  Sizes are      *)
(* bytes.  The image is assumed to decode (loadImage resolves).            *)
(*                                                                         *)
(* Encoder.  canvas.toBlob and UPNG.encode are external.  The variable     *)
(* encoder selects how sizes are produced:                                 *)
(*   "oracle"  : every probe picks any size class (or no output), but a    *)
(*               repeated probe at the same parameters repeats its result  *)
(*   "step"    : size(scale) = under below a threshold scale, else over    *)
(*   "product" : size(scale, quality) = 1000KB * scale * quality           *)
(***************************************************************************)
EXTENDS Integers, FiniteSets, Sequences, TLC

VARIABLES
    cfg,        \* the call: function, file.size and the options
    encoder,    \* the external encoder's behaviour
    pc,         \* position of the async function
    low, high, bestBlob, bestScale, i,  \* locals of the (outer) scale search
    canvas,     \* scale of the render the shared canvas holds (0: nothing drawn yet);
                \* resizeToDimensions: the canvas's width and height
    rendered,   \* the scales the canvas was drawn at during this call
    quantLow, quantHigh, quantBest, quantI, \* locals of binarySearchWithQuantization
    effMime, qOnly,                     \* locals of resizeRasterToTarget
    lo, hi, best, fitI, caller, fitRet, \* locals / return of fitByQuality
    fitEncodes, \* encodes issued by the current fitByQuality call
    result,     \* the blob the promise resolved with
    probes,     \* encode results so far (png: whole call; raster: current fitByQuality call)
    memo,       \* raster: results at parameters a later call can ask for again
    nEncodes,   \* resizePngToTarget: number of canvas.toBlob encodes issued
    nQuant,     \* number of UPNG.encode calls
    run,        \* 0: one call is explored; 1, 2: the first, the second of two equal calls
    trace,      \* run > 0: the encodes of this call in the order issued
    firstCall   \* run = 2: how the first call ended

pngVars    == <<low, high, bestBlob, bestScale, i>>
quantVars  == <<quantLow, quantHigh, quantBest, quantI>>
rasterVars == <<effMime, qOnly>>
fitVars    == <<lo, hi, best, fitI, caller, fitRet, fitEncodes>>
vars == <<cfg, encoder, pc, low, high, bestBlob, bestScale, i, canvas, rendered,
          quantLow, quantHigh, quantBest, quantI, effMime, qOnly,
          lo, hi, best, fitI, caller, fitRet, fitEncodes,
          result, probes, memo, nEncodes, nQuant, run, trace, firstCall>>

-----------------------------------------------------------------------------
(* Numbers *)

Unit == 1000                      \* 1.0 in steps of the 1e-3 loop threshold
Epsilon == Unit \div 1000         \* 1e-3
PngFloorScale == Unit \div 100    \* 0.01
MimeTestQuality == (9 * Unit) \div 10   \* 0.9
KB == 1024

Min(a, b) == IF a <= b THEN a ELSE b
Max(a, b) == IF a >= b THEN a ELSE b

Clamp(x, a, b) == Max(a, Min(b, x))

WithinBuffer(size, target, buffer) ==
    size >= target - buffer /\ size <= target + buffer

Mid(a, b) == (a + b) \div 2

RECURSIVE LongDiv(_, _, _, _)
\* floor(t * 10^k / f) by long division, given q = t \div f and r = t % f
LongDiv(q, r, f, k) ==
    IF k = 0 THEN q
    ELSE LongDiv(q * 10 + (r * 10) \div f, (r * 10) % f, f, k - 1)

RECURSIVE IsqrtIn(_, _, _)
\* the largest x in a..b with x * x <= n (a * a <= n)
IsqrtIn(n, a, b) ==
    IF a >= b THEN a
    ELSE LET m == (a + b + 1) \div 2
         IN  IF m * m <= n THEN IsqrtIn(n, m, b) ELSE IsqrtIn(n, a, m - 1)

\* Math.sqrt(t / f) on the scale grid: floor(sqrt(t / f) * Unit), Unit * Unit = 10^6
SqrtRatio(t, f) == IsqrtIn(LongDiv(t \div f, t % f, f, 6), 0, 46340)

-----------------------------------------------------------------------------
(* Blobs *)

NoBlob == [kind |-> "none", size |-> 0, scale |-> 0, quality |-> 0]

Blob(k, sz, s, q) == [kind |-> k, size |-> sz, scale |-> s, quality |-> q]

FileBlob == Blob("file", cfg.fileSize, Unit, 0)

Failed == -1      \* canvas.toBlob delivered null

-----------------------------------------------------------------------------
(* Options *)

\* PngTargetBytes without the clamp to [10KB, 200KB]
PngTargetBytesUnclamped(targetKB) == targetKB * KB

PngTargetBytes(targetKB) == Max(10 * KB, Min(200 * KB, targetKB * KB))

RasterTargetBytes(targetKB) == Max(1, targetKB * KB)

targetBytes ==
    IF cfg.fn = "png" THEN PngTargetBytes(cfg.targetKB)
    ELSE RasterTargetBytes(cfg.targetKB)

bufferBytes == cfg.bufferKB * KB

minScale == cfg.minScale

guessScale ==
    Clamp(SqrtRatio(targetBytes, Max(1, cfg.fileSize)), minScale, Unit)

-----------------------------------------------------------------------------
(* The external encoder *)

\* size classes an oracle encoder answers with: below the band, exactly the
\* target, the top of the band, above the band
SizeChoices(T, B) == { Max(0, (T - B) \div 2), T, T + B, T + B + 1 }

StepSize(e, s) == IF s < e.th THEN e.under ELSE e.over

\* 1000KB * scale * quality = 1024000 * (s / 1000) * (q / 1000) bytes, rounded down
ProductSize(s, q) == (s * q * 128) \div 125

Known(s, q) == { p \in probes \cup memo : p.scale = s /\ p.quality = q /\ p.kind = "canvas" }

\* the results canvas.toBlob can deliver for the canvas drawn at scale s, quality q
EncodeOutcomes(s, q) ==
    CASE encoder.kind = "step"    -> { StepSize(encoder, s) }
      [] encoder.kind = "product" -> { ProductSize(s, q) }
      [] OTHER ->
            IF Known(s, q) # {} THEN { p.size : p \in Known(s, q) }
            ELSE SizeChoices(targetBytes, bufferBytes) \cup { Failed }

\* the sizes UPNG.encode can produce for the canvas drawn at scale s
QuantOutcomes(s) ==
    IF encoder.kind = "step" THEN { StepSize(encoder, s) \div 2 }
    ELSE SizeChoices(targetBytes, bufferBytes)

Probe(k, s, q, sz) == [kind |-> k, scale |-> s, quality |-> q, size |-> sz]

\* one encode request: what is asked of the encoder, for the canvas at scale s
Call(what, s, q) == [call |-> what, scale |-> s, quality |-> q]

\* the call's encode requests, kept in order when two calls are compared
Log(calls) == trace' = IF run = 0 THEN trace ELSE trace \o calls

NoCall == [pc |-> "", result |-> NoBlob, trace |-> << >>, effMime |-> ""]

-----------------------------------------------------------------------------
(* resizePngToTarget: the scale search *)

SearchState(l, h, b, s) == [low |-> l, high |-> h, bestBlob |-> b, bestScale |-> s]

\* the guess probe seeds the bracket (low = 0, high = 1, bestBlob = null, bestScale = 1)
PngSeed(s, size) ==
    IF size <= targetBytes
    THEN SearchState(s, Unit, Blob("png", size, s, 0), s)
    ELSE SearchState(0, s, NoBlob, Unit)

\* PngNarrow with the bracket moved the wrong way after a fit
PngNarrowDownward(st, mid, size) ==
    IF size > targetBytes
    THEN SearchState(st.low, mid, st.bestBlob, st.bestScale)
    ELSE SearchState(st.low, mid, Blob("png", size, mid, 0), mid)

\* one round of the bisection loop, after the probe at mid came back
PngNarrow(st, mid, size) ==
    IF size > targetBytes
    THEN SearchState(st.low, mid, st.bestBlob, st.bestScale)
    ELSE SearchState(mid, st.high, Blob("png", size, mid, 0), mid)

\* PngAfterSearch without the test of the band
PngAfterSearchNoBandTest(b) ==
    IF cfg.useQuantization /\ cfg.hasUPNG THEN "quantize" ELSE "return"

\* PngAfterSearch that quantizes whenever UPNG is present, useQuantization or not
PngAfterSearchIgnoresSwitch(b) ==
    IF WithinBuffer(b.size, targetBytes, bufferBytes) THEN "return"
    ELSE IF cfg.hasUPNG THEN "quantize"
    ELSE "return"

\* after the loop and the fallback: return the best, or go on to quantization
PngAfterSearch(b) ==
    IF WithinBuffer(b.size, targetBytes, bufferBytes) THEN "return"
    ELSE IF cfg.useQuantization /\ cfg.hasUPNG THEN "quantize"
    ELSE "return"

PngEnter ==
    /\ pc = "start"
    /\ cfg.fn = "png"
    /\ IF \/ WithinBuffer(cfg.fileSize, targetBytes, bufferBytes)
          \/ cfg.fileSize <= targetBytes + bufferBytes
       THEN /\ pc' = "done"
            /\ result' = FileBlob
            /\ UNCHANGED pngVars
       ELSE /\ pc' = "guess"
            /\ low' = 0
            /\ high' = Unit
            /\ bestBlob' = NoBlob
            /\ bestScale' = Unit
            /\ i' = 0
            /\ UNCHANGED result
    /\ UNCHANGED <<cfg, encoder, run, firstCall, trace, canvas, rendered, quantVars,
                   rasterVars, fitVars, probes, memo, nEncodes, nQuant>>

PngGuess ==
    /\ pc = "guess"
    /\ \E out \in EncodeOutcomes(guessScale, 0) :
          /\ canvas' = guessScale
          /\ rendered' = rendered \cup { guessScale }
          /\ nEncodes' = nEncodes + 1
          /\ probes' = probes \cup { Probe("canvas", guessScale, 0, out) }
          /\ Log(<< Call("toBlob", guessScale, 0) >>)
          /\ IF out = Failed
             THEN /\ pc' = "rejected"
                  /\ UNCHANGED pngVars
             ELSE LET st == PngSeed(guessScale, out)
                  IN  /\ low' = st.low
                      /\ high' = st.high
                      /\ bestBlob' = st.bestBlob
                      /\ bestScale' = st.bestScale
                      /\ i' = 0
                      /\ pc' = "loop"
    /\ UNCHANGED <<cfg, encoder, run, firstCall, quantVars, rasterVars, fitVars,
                   result, memo, nQuant>>

\* PngLoopCond without the iteration budget
PngLoopCondNoBudget == high - low > Epsilon

PngLoopCond == i < cfg.maxIterations /\ high - low > Epsilon

PngMid ==
    /\ pc = "loop"
    /\ PngLoopCond
    /\ LET mid == Clamp(Mid(low, high), minScale, Unit)
       IN  \E out \in EncodeOutcomes(mid, 0) :
             /\ canvas' = mid
             /\ rendered' = rendered \cup { mid }
             /\ nEncodes' = nEncodes + 1
             /\ probes' = probes \cup { Probe("canvas", mid, 0, out) }
             /\ Log(<< Call("toBlob", mid, 0) >>)
             /\ IF out = Failed
                THEN /\ pc' = "rejected"
                     /\ UNCHANGED pngVars
                ELSE LET st == PngNarrow(SearchState(low, high, bestBlob, bestScale), mid, out)
                     IN  /\ low' = st.low
                         /\ high' = st.high
                         /\ bestBlob' = st.bestBlob
                         /\ bestScale' = st.bestScale
                         /\ i' = i + 1
                         /\ pc' = "loop"
    /\ UNCHANGED <<cfg, encoder, run, firstCall, quantVars, rasterVars, fitVars,
                   result, memo, nQuant>>

PngLoopEnd ==
    /\ pc = "loop"
    /\ ~PngLoopCond
    /\ pc' = IF bestBlob = NoBlob THEN "fallback" ELSE "check"
    /\ UNCHANGED <<cfg, encoder, run, firstCall, trace, pngVars, canvas, rendered,
                   quantVars, rasterVars, fitVars, result, probes, memo, nEncodes,
                   nQuant>>

\* the scale the fallback renders at
PngFallbackScale == Max(minScale, PngFloorScale)

PngFallback ==
    /\ pc = "fallback"
    /\ \E out \in EncodeOutcomes(PngFallbackScale, 0) :
          /\ canvas' = PngFallbackScale
          /\ rendered' = rendered \cup { PngFallbackScale }
          /\ nEncodes' = nEncodes + 1
          /\ probes' = probes \cup { Probe("canvas", PngFallbackScale, 0, out) }
          /\ Log(<< Call("toBlob", PngFallbackScale, 0) >>)
          /\ IF out = Failed
             THEN /\ pc' = "rejected"
                  /\ UNCHANGED <<bestBlob, bestScale>>
             ELSE /\ bestBlob' = Blob("png", out, PngFallbackScale, 0)
                  /\ bestScale' = minScale
                  /\ pc' = "check"
    /\ UNCHANGED <<cfg, encoder, run, firstCall, low, high, i, quantVars, rasterVars,
                   fitVars, result, memo, nQuant>>

PngCheck ==
    /\ pc = "check"
    /\ IF PngAfterSearch(bestBlob) = "return"
       THEN pc' = "done" /\ result' = bestBlob
       ELSE pc' = "quant" /\ UNCHANGED result
    /\ UNCHANGED <<cfg, encoder, run, firstCall, trace, pngVars, canvas, rendered,
                   quantVars, rasterVars, fitVars, probes, memo, nEncodes, nQuant>>

\* quantizeWithUPNG on whatever the canvas holds, then the refinement search
PngQuantize ==
    /\ pc = "quant"
    /\ Log(<< Call("UPNG.encode", canvas, 0) >>)
    /\ \E qs \in QuantOutcomes(canvas) :
          /\ nQuant' = nQuant + 1
          /\ IF WithinBuffer(qs, targetBytes, bufferBytes)
             THEN /\ pc' = "done"
                  /\ result' = Blob("quant", qs, canvas, 0)
                  /\ UNCHANGED quantVars
             ELSE /\ pc' = "quantLoop"
                  /\ quantLow' = minScale
                  /\ quantHigh' = bestScale
                  /\ quantBest' = NoBlob
                  /\ quantI' = 0
                  /\ UNCHANGED result
    /\ UNCHANGED <<cfg, encoder, run, firstCall, pngVars, canvas, rendered, rasterVars,
                   fitVars, probes, memo, nEncodes>>

QuantLoopCond == quantI < cfg.maxIterations /\ quantHigh - quantLow > Epsilon

\* renderAtScale's own PNG encode is awaited and its blob dropped: only whether
\* it delivered a blob matters
RenderDelivers(s) ==
    IF encoder.kind = "oracle" /\ Known(s, 0) = {} THEN {TRUE, FALSE} ELSE {TRUE}

PngQuantMid ==
    /\ pc = "quantLoop"
    /\ QuantLoopCond
    /\ LET mid == Clamp(Mid(quantLow, quantHigh), minScale, Unit)
       IN  \E ok \in RenderDelivers(mid) :
             /\ canvas' = mid
             /\ rendered' = rendered \cup { mid }
             /\ nEncodes' = nEncodes + 1
             /\ IF ~ok
                THEN /\ pc' = "rejected"
                     /\ Log(<< Call("toBlob", mid, 0) >>)
                     /\ UNCHANGED <<quantVars, result, nQuant>>
                ELSE \E qs \in QuantOutcomes(mid) :
                       /\ Log(<< Call("toBlob", mid, 0), Call("UPNG.encode", mid, 0) >>)
                       /\ nQuant' = nQuant + 1
                       /\ quantI' = quantI + 1
                       /\ IF qs > targetBytes
                          THEN /\ quantHigh' = mid
                               /\ pc' = "quantLoop"
                               /\ UNCHANGED <<quantLow, quantBest, result>>
                          ELSE /\ quantBest' = Blob("quant", qs, mid, 0)
                               /\ quantLow' = mid
                               /\ UNCHANGED quantHigh
                               /\ IF WithinBuffer(qs, targetBytes, bufferBytes)
                                  THEN pc' = "done" /\ result' = Blob("quant", qs, mid, 0)
                                  ELSE pc' = "quantLoop" /\ UNCHANGED result
    /\ UNCHANGED <<cfg, encoder, run, firstCall, pngVars, rasterVars, fitVars, probes,
                   memo>>

PngQuantEnd ==
    /\ pc = "quantLoop"
    /\ ~QuantLoopCond
    /\ pc' = "done"
    /\ result' = IF quantBest # NoBlob THEN quantBest ELSE bestBlob
    /\ UNCHANGED <<cfg, encoder, run, firstCall, trace, pngVars, canvas, rendered,
                   quantVars, rasterVars, fitVars, probes, memo, nEncodes, nQuant>>

NextPng ==
    \/ PngEnter \/ PngGuess \/ PngMid \/ PngLoopEnd \/ PngFallback
    \/ PngCheck \/ PngQuantize \/ PngQuantMid \/ PngQuantEnd

-----------------------------------------------------------------------------
(* fitByQuality: the quality search on the canvas as drawn *)

ceiling == targetBytes + bufferBytes

\* (scale, quality) pairs that more than one fitByQuality call, or the final
\* fallback, can encode again
MemoKey(p) == p.quality = cfg.minQuality /\ p.scale \in { minScale, Unit }

FitState(l, h, b, nxt, r) == [lo |-> l, hi |-> h, best |-> b, next |-> nxt, ret |-> r]

\* after the probe at minQ
FitAfterMin(out) ==
    IF out = Failed THEN FitState(lo, hi, best, "return", NoBlob)
    ELSE IF out > ceiling THEN FitState(lo, hi, best, "return", NoBlob)
    ELSE LET minTry == Blob("lossy", out, canvas, lo)
         IN  IF WithinBuffer(out, targetBytes, bufferBytes)
             THEN FitState(lo, hi, minTry, "return", minTry)
             ELSE FitState(lo, hi, minTry, "fitMax", NoBlob)

\* after the probe at maxQ
FitAfterMax(out) ==
    IF out # Failed /\ out <= ceiling
    THEN LET maxTry == Blob("lossy", out, canvas, hi)
         IN  IF WithinBuffer(out, targetBytes, bufferBytes)
             THEN FitState(lo, hi, maxTry, "return", maxTry)
             ELSE FitState(Mid(hi, lo), hi, maxTry, "fitLoop", NoBlob)
    ELSE FitState(lo, hi, best, "fitLoop", NoBlob)

\* FitNarrow without the test for a missing blob: reading b.size throws
FitNarrowNoNullTest(mid, out) ==
    IF out = Failed THEN FitState(lo, hi, best, "rejected", NoBlob)
    ELSE IF out > ceiling THEN FitState(lo, mid, best, "fitLoop", NoBlob)
    ELSE LET b == Blob("lossy", out, canvas, mid)
         IN  IF WithinBuffer(out, targetBytes, bufferBytes)
             THEN FitState(lo, hi, b, "return", b)
             ELSE FitState(mid, hi, b, "fitLoop", NoBlob)

\* one round of the quality bisection, after the probe at mid came back
FitNarrow(mid, out) ==
    IF out = Failed THEN FitState(lo, hi, best, "return", best)
    ELSE IF out > ceiling THEN FitState(lo, mid, best, "fitLoop", NoBlob)
    ELSE LET b == Blob("lossy", out, canvas, mid)
         IN  IF WithinBuffer(out, targetBytes, bufferBytes)
             THEN FitState(lo, hi, b, "return", b)
             ELSE FitState(mid, hi, b, "fitLoop", NoBlob)

ReturnTo == CASE caller = "qOnly" -> "afterQOnly"
              [] caller = "first" -> "afterFirst"
              [] OTHER            -> "afterMid"

\* take the step a FitState describes
FitApply(o) ==
    /\ lo' = o.lo
    /\ hi' = o.hi
    /\ best' = o.best
    /\ IF o.next = "return"
       THEN pc' = ReturnTo /\ fitRet' = o.ret
       ELSE pc' = o.next /\ UNCHANGED fitRet

\* the encode itself: counted, remembered
FitEncode(q, out) ==
    LET p == Probe("canvas", canvas, q, out)
    IN  /\ fitEncodes' = fitEncodes + 1
        /\ Log(<< Call("toBlob", canvas, q) >>)
        /\ probes' = probes \cup { p }
        /\ memo' = IF MemoKey(p) THEN memo \cup { p } ELSE memo

\* entry of fitByQuality(canvas, ...) from the place named who, the canvas drawn at scale s
FitCall(s, who) ==
    /\ canvas' = s
    /\ rendered' = rendered \cup { s }
    /\ lo' = cfg.minQuality
    /\ hi' = cfg.maxQuality
    /\ best' = NoBlob
    /\ fitI' = 0
    /\ fitEncodes' = 0
    /\ fitRet' = NoBlob
    /\ caller' = who
    /\ probes' = {}
    /\ pc' = "fitMin"

\* the caller has taken fitByQuality's answer: its frame is gone
FitFrameGone ==
    /\ lo' = 0
    /\ hi' = 0
    /\ best' = NoBlob
    /\ fitI' = 0
    /\ fitEncodes' = 0
    /\ fitRet' = NoBlob
    /\ caller' = ""
    /\ probes' = {}

FitMinTry ==
    /\ pc = "fitMin"
    /\ \E out \in EncodeOutcomes(canvas, lo) :
          /\ FitEncode(lo, out)
          /\ FitApply(FitAfterMin(out))
    /\ UNCHANGED <<cfg, encoder, run, firstCall, pngVars, canvas, rendered, quantVars,
                   rasterVars, fitI, caller, result, nEncodes, nQuant>>

FitMaxTry ==
    /\ pc = "fitMax"
    /\ \E out \in EncodeOutcomes(canvas, hi) :
          /\ FitEncode(hi, out)
          /\ FitApply(FitAfterMax(out))
    /\ fitI' = 0
    /\ UNCHANGED <<cfg, encoder, run, firstCall, pngVars, canvas, rendered, quantVars,
                   rasterVars, caller, result, nEncodes, nQuant>>

FitLoopCond == fitI < cfg.qualityIterations /\ hi - lo > Epsilon

FitMid ==
    /\ pc = "fitLoop"
    /\ FitLoopCond
    /\ LET mid == Clamp(Mid(lo, hi), cfg.minQuality, cfg.maxQuality)
       IN  \E out \in EncodeOutcomes(canvas, mid) :
             /\ FitEncode(mid, out)
             /\ FitApply(FitNarrow(mid, out))
    /\ fitI' = fitI + 1
    /\ UNCHANGED <<cfg, encoder, run, firstCall, pngVars, canvas, rendered, quantVars,
                   rasterVars, caller, result, nEncodes, nQuant>>

FitLoopEnd ==
    /\ pc = "fitLoop"
    /\ ~FitLoopCond
    /\ pc' = ReturnTo
    /\ fitRet' = best
    /\ UNCHANGED <<cfg, encoder, run, firstCall, trace, pngVars, canvas, rendered,
                   quantVars, rasterVars, lo, hi, best, fitI, caller, fitEncodes,
                   result, probes, memo, nEncodes, nQuant>>

-----------------------------------------------------------------------------
(* resizeRasterToTarget: the quality+scale search *)

mime == IF cfg.fn = "webp" THEN "image/webp" ELSE "image/jpeg"

mid0 == Max(minScale, SqrtRatio(targetBytes, Max(1, cfg.fileSize)))

\* RasterAfterFullSize that shrinks whenever the answer is outside the band
RasterAfterFullSizeBandOnly(q) ==
    IF q # NoBlob /\ WithinBuffer(q.size, targetBytes, bufferBytes) THEN "return"
    ELSE "shrink"

\* what the function does with the full-size quality search's answer
RasterAfterFullSize(q) ==
    IF q # NoBlob /\ WithinBuffer(q.size, targetBytes, bufferBytes) THEN "return"
    ELSE IF q = NoBlob \/ q.size > ceiling THEN "shrink"
    ELSE "return"

\* the bracket after tryScale(mid0) (low = minScale, high = 1, bestBlob = null)
RasterSeed(first) ==
    IF first # NoBlob /\ first.size <= ceiling
    THEN SearchState(mid0, Unit, first, mid0)
    ELSE SearchState(minScale, mid0, NoBlob, minScale)

RasterStep(l, h, b, s, r) ==
    [low |-> l, high |-> h, bestBlob |-> b, bestScale |-> s, ret |-> r]

\* RasterNarrow that raises low when nothing fitted
RasterNarrowUpward(st, mid, b) ==
    IF b = NoBlob THEN RasterStep(mid, st.high, st.bestBlob, st.bestScale, FALSE)
    ELSE IF b.size > ceiling THEN RasterStep(mid, st.high, st.bestBlob, st.bestScale, FALSE)
    ELSE IF WithinBuffer(b.size, targetBytes, bufferBytes)
         THEN RasterStep(st.low, st.high, b, mid, TRUE)
         ELSE RasterStep(mid, st.high, b, mid, FALSE)

\* one round of the outer loop, after tryScale(mid) answered b
RasterNarrow(st, mid, b) ==
    IF b = NoBlob THEN RasterStep(st.low, mid, st.bestBlob, st.bestScale, FALSE)
    ELSE IF b.size > ceiling THEN RasterStep(st.low, mid, st.bestBlob, st.bestScale, FALSE)
    ELSE IF WithinBuffer(b.size, targetBytes, bufferBytes)
         THEN RasterStep(st.low, st.high, b, mid, TRUE)
         ELSE RasterStep(mid, st.high, b, mid, FALSE)

RasterEnter ==
    /\ pc = "start"
    /\ cfg.fn \in {"jpeg", "webp"}
    /\ IF WithinBuffer(cfg.fileSize, targetBytes, bufferBytes)
       THEN /\ pc' = "done"
            /\ result' = FileBlob
            /\ UNCHANGED <<canvas, rendered>>
       ELSE /\ pc' = "mimeTest"
            /\ canvas' = Unit
            /\ rendered' = rendered \cup { Unit }
            /\ UNCHANGED result
    /\ UNCHANGED <<cfg, encoder, run, firstCall, trace, pngVars, quantVars, rasterVars,
                   fitVars, probes, memo, nEncodes, nQuant>>

\* what testMimeSupport can answer: jpeg is always encoded; the browser's answer
\* for webp is the same in a second call
MimeSupport ==
    IF mime = "image/jpeg" THEN {TRUE}
    ELSE IF run = 2 THEN { firstCall.effMime = mime }
    ELSE BOOLEAN

\* testMimeSupport, then the quality-only search at full size
RasterMimeTest ==
    /\ pc = "mimeTest"
    /\ \E supported \in MimeSupport :
          effMime' = IF supported THEN mime ELSE "image/jpeg"
    /\ FitCall(Unit, "qOnly")
    /\ UNCHANGED <<cfg, encoder, run, firstCall, trace, pngVars, quantVars, qOnly,
                   result, memo, nEncodes, nQuant>>

RasterAfterQOnly ==
    /\ pc = "afterQOnly"
    /\ qOnly' = fitRet
    /\ IF RasterAfterFullSize(fitRet) = "return"
       THEN /\ pc' = "done"
            /\ result' = fitRet
            /\ FitFrameGone
            /\ UNCHANGED <<pngVars, canvas, rendered>>
       ELSE /\ low' = minScale
            /\ high' = Unit
            /\ bestBlob' = NoBlob
            /\ bestScale' = minScale
            /\ i' = 0
            /\ FitCall(mid0, "first")
            /\ UNCHANGED result
    /\ UNCHANGED <<cfg, encoder, run, firstCall, trace, quantVars, effMime, memo,
                   nEncodes, nQuant>>

RasterAfterFirst ==
    /\ pc = "afterFirst"
    /\ LET st == RasterSeed(fitRet)
       IN  /\ low' = st.low
           /\ high' = st.high
           /\ bestBlob' = st.bestBlob
           /\ bestScale' = st.bestScale
    /\ i' = 0
    /\ pc' = "scaleLoop"
    /\ FitFrameGone
    /\ UNCHANGED <<cfg, encoder, run, firstCall, trace, canvas, rendered, quantVars,
                   rasterVars, result, memo, nEncodes, nQuant>>

ScaleLoopCond == i < cfg.scaleIterations /\ high - low > Epsilon

RasterMid ==
    /\ pc = "scaleLoop"
    /\ ScaleLoopCond
    /\ FitCall(Clamp(Mid(low, high), minScale, Unit), "mid")
    /\ UNCHANGED <<cfg, encoder, run, firstCall, trace, pngVars, quantVars, rasterVars,
                   result, memo, nEncodes, nQuant>>

RasterAfterMid ==
    /\ pc = "afterMid"
    /\ LET st == RasterNarrow(SearchState(low, high, bestBlob, bestScale), canvas, fitRet)
       IN  /\ low' = st.low
           /\ high' = st.high
           /\ bestBlob' = st.bestBlob
           /\ bestScale' = st.bestScale
           /\ IF st.ret
              THEN pc' = "done" /\ result' = fitRet /\ UNCHANGED i
              ELSE pc' = "scaleLoop" /\ i' = i + 1 /\ UNCHANGED result
    /\ FitFrameGone
    /\ UNCHANGED <<cfg, encoder, run, firstCall, trace, canvas, rendered, quantVars,
                   rasterVars, memo, nEncodes, nQuant>>

RasterLoopEnd ==
    /\ pc = "scaleLoop"
    /\ ~ScaleLoopCond
    /\ IF bestBlob # NoBlob
       THEN /\ pc' = "done"
            /\ result' = bestBlob
            /\ UNCHANGED <<canvas, rendered>>
       ELSE /\ pc' = "tiny"
            /\ canvas' = minScale
            /\ rendered' = rendered \cup { minScale }
            /\ UNCHANGED result
    /\ UNCHANGED <<cfg, encoder, run, firstCall, trace, pngVars, quantVars, rasterVars,
                   fitVars, probes, memo, nEncodes, nQuant>>

\* the last resort: minScale at minQuality, or the file itself
RasterTiny ==
    /\ pc = "tiny"
    /\ \E out \in EncodeOutcomes(minScale, cfg.minQuality) :
          result' = IF out = Failed THEN FileBlob
                    ELSE Blob("lossy", out, minScale, cfg.minQuality)
    /\ Log(<< Call("toBlob", minScale, cfg.minQuality) >>)
    /\ pc' = "done"
    /\ UNCHANGED <<cfg, encoder, run, firstCall, pngVars, canvas, rendered, quantVars,
                   rasterVars, fitVars, probes, memo, nEncodes, nQuant>>

NextRaster ==
    \/ RasterEnter \/ RasterMimeTest \/ RasterAfterQOnly \/ RasterAfterFirst
    \/ RasterMid \/ RasterAfterMid \/ RasterLoopEnd \/ RasterTiny
    \/ FitMinTry \/ FitMaxTry \/ FitMid \/ FitLoopEnd

-----------------------------------------------------------------------------
(* The calls explored *)

MaxIterations == 2          \* png: maxIterations explored up to here
MaxQualityIterations == 2   \* raster: qualityIterations explored up to here
MaxScaleIterations == 2     \* raster: scaleIterations explored up to here

DefaultMinQuality == (3 * Unit) \div 10     \* 0.3
DefaultMaxQuality == (95 * Unit) \div 100   \* 0.95
DefaultMinScale == (5 * Unit) \div 100      \* 0.05
DefaultIterations == 12                     \* qualityIterations, scaleIterations

Options(fn, fileSize, targetKB, bufferKB, its, ms, useQ, upng, minQ, maxQ, qIts, sIts) ==
    [fn |-> fn, fileSize |-> fileSize, targetKB |-> targetKB, bufferKB |-> bufferKB,
     maxIterations |-> its, minScale |-> ms, useQuantization |-> useQ, hasUPNG |-> upng,
     minQuality |-> minQ, maxQuality |-> maxQ,
     qualityIterations |-> qIts, scaleIterations |-> sIts]

PngFileSizes == { 8 * KB, 40 * KB, 800 * KB, 20000 * KB }

PngCalls ==
    { Options("png", f, t, b, its, ms, q[1], q[2],
              DefaultMinQuality, DefaultMaxQuality, 0, 0) :
        f \in PngFileSizes, t \in {5, 300}, b \in {0, 5},
        its \in {0, MaxIterations}, ms \in {5, 50},
        q \in { <<TRUE, TRUE>>, <<TRUE, FALSE>>, <<FALSE, TRUE>> } }

RasterFileSizes == { 50 * KB, 102 * KB, 400 * KB, 45000 * KB }

RasterCall(fn, f, b, ms) ==
    Options(fn, f, 100, b, 0, ms, FALSE, FALSE, DefaultMinQuality, DefaultMaxQuality,
            MaxQualityIterations, MaxScaleIterations)

RasterCalls ==
    { RasterCall(fn, f, 5, DefaultMinScale) : fn \in {"jpeg", "webp"}, f \in RasterFileSizes }
    \cup { RasterCall("jpeg", 400 * KB, 0, DefaultMinScale),
           RasterCall("jpeg", 45000 * KB, 5, Unit \div 2) }

\* the scenario of the nested search: size = 1000KB * scale * quality,
\* target 100KB, tolerance 2KB, quality in [0.3, 0.95], scale in [0.05, 1.0]
ScenarioFileSizes ==
    { k * KB : k \in {1, 10, 50, 97, 98, 100, 102, 103} }
    \cup { 100 * k * KB : k \in 2 .. 30 }
    \cup { 1000 * k * KB : k \in 4 .. 45 }

ScenarioCalls ==
    { Options("jpeg", f, 100, 2, 0, DefaultMinScale, FALSE, FALSE,
              DefaultMinQuality, DefaultMaxQuality, DefaultIterations, DefaultIterations) :
        f \in ScenarioFileSizes }

Encoder(k, th, u, o) == [kind |-> k, th |-> th, under |-> u, over |-> o]

Oracle == Encoder("oracle", 0, 0, 0)
Product == Encoder("product", 0, 0, 0)

\* step encoders for a png call: the threshold between 0.005 and 0.01, or at 0.3
StepEncoders(c) ==
    LET T == PngTargetBytes(c.targetKB)
        B == c.bufferKB * KB
    IN  { Encoder("step", th, u, o) :
            th \in {8, 300}, u \in SizeChoices(T, B), o \in SizeChoices(T, B) }

Encoders(c) ==
    IF c \in ScenarioCalls THEN { Product }
    ELSE IF c.fn = "png" THEN { Oracle } \cup StepEncoders(c)
    ELSE { Oracle }

Init ==
    /\ cfg \in PngCalls \cup RasterCalls \cup ScenarioCalls
    /\ encoder \in Encoders(cfg)
    /\ pc = "start"
    /\ low = 0 /\ high = Unit /\ bestBlob = NoBlob /\ bestScale = Unit /\ i = 0
    /\ canvas = 0 /\ rendered = {}
    /\ quantLow = 0 /\ quantHigh = 0 /\ quantBest = NoBlob /\ quantI = 0
    /\ effMime = "" /\ qOnly = NoBlob
    /\ lo = 0 /\ hi = 0 /\ best = NoBlob /\ fitI = 0 /\ caller = "" /\ fitRet = NoBlob
    /\ fitEncodes = 0
    /\ result = NoBlob
    /\ probes = {} /\ memo = {}
    /\ nEncodes = 0 /\ nQuant = 0
    /\ run = 0 /\ trace = << >> /\ firstCall = NoCall

Next == NextPng \/ NextRaster

Spec == Init /\ [][Next]_vars

-----------------------------------------------------------------------------
(* resizeToDimensions: the size of the canvas it draws (src/src/resize-to-dimensions.ts) *)

\* Math.round(n / d) for n >= 0, d > 0: halves go up
Round(n, d) == (2 * n + d) \div (2 * d)

Fraction(n, d) == [num |-> n, den |-> d]

\* Math.min(a, b) and Math.max(a, b) of two fractions
MinFraction(a, b) == IF a.num * b.den <= b.num * a.den THEN a ELSE b
MaxFraction(a, b) == IF a.num * b.den >= b.num * a.den THEN a ELSE b

Size(w, h) == [width |-> w, height |-> h]

\* the target box after resizeMode
TargetSize(c) ==
    IF c.resizeMode = "percentage" /\ c.percentage # 0
    THEN Size(Round(c.originalWidth * c.percentage, 100),
              Round(c.originalHeight * c.percentage, 100))
    ELSE Size(c.width, c.height)

\* NotEnlargeScaleFit with the scale that covers the box instead of fitting in it
NotEnlargeScaleCover(t, c) ==
    MaxFraction(Fraction(t.width, c.naturalWidth), Fraction(t.height, c.naturalHeight))

\* scaleFit of the not-enlarge branch
NotEnlargeScaleFit(t, c) ==
    MinFraction(Fraction(t.width, c.naturalWidth), Fraction(t.height, c.naturalHeight))

\* the canvas of the not-enlarge branch
NotEnlargeSize(t, c) ==
    LET scaleFit == NotEnlargeScaleFit(t, c)
    IN  IF scaleFit.num >= scaleFit.den
        THEN Size(c.naturalWidth, c.naturalHeight)
        ELSE Size(Round(c.naturalWidth * scaleFit.num, scaleFit.den),
                  Round(c.naturalHeight * scaleFit.num, scaleFit.den))

\* the canvas of the stretch branch
StretchSize(t, c) ==
    IF ~c.maintainAspectRatio THEN t
    ELSE IF t.width * c.originalHeight > c.originalWidth * t.height
         THEN Size(Round(t.height * c.originalWidth, c.originalHeight), t.height)
         ELSE Size(t.width, Round(t.width * c.originalHeight, c.originalWidth))

CanvasSize(c) ==
    LET t == TargetSize(c)
    IN  CASE c.fitMode = "fit"         -> t
          [] c.fitMode = "not-enlarge" -> NotEnlargeSize(t, c)
          [] c.fitMode = "crop"        -> t
          [] OTHER                     -> StretchSize(t, c)

\* the whole call: size and draw the canvas, then canvas.toBlob, which delivers
\* no blob for an empty canvas and may fail otherwise
ResizeToDimensions ==
    /\ pc = "start"
    /\ cfg.fn = "dimensions"
    /\ canvas' = CanvasSize(cfg)
    /\ \E blob \in (IF canvas'.width = 0 \/ canvas'.height = 0 THEN {FALSE} ELSE BOOLEAN) :
          pc' = IF blob THEN "done" ELSE "rejected"
    /\ UNCHANGED <<cfg, encoder, run, firstCall, trace, pngVars, rendered, quantVars,
                   rasterVars, fitVars, result, probes, memo, nEncodes, nQuant>>

MaxDim == 4     \* widths and heights explored: 1 .. MaxDim pixels

Dims == 1 .. MaxDim

FitModes == {"stretch", "fit", "crop", "not-enlarge"}

DimensionCalls ==
    { [fn |-> "dimensions", fitMode |-> m, resizeMode |-> r[1], percentage |-> r[2],
       maintainAspectRatio |-> a, width |-> tw, height |-> th,
       naturalWidth |-> nw, naturalHeight |-> nh,
       originalWidth |-> nw, originalHeight |-> nh] :
        m \in FitModes, r \in { <<"preset", 0>>, <<"percentage", 50>>, <<"percentage", 150>> },
        a \in BOOLEAN, tw \in Dims, th \in Dims, nw \in Dims, nh \in Dims }

InitDimensions ==
    /\ cfg \in DimensionCalls
    /\ encoder = Oracle
    /\ pc = "start"
    /\ low = 0 /\ high = Unit /\ bestBlob = NoBlob /\ bestScale = Unit /\ i = 0
    /\ canvas = Size(0, 0) /\ rendered = {}
    /\ quantLow = 0 /\ quantHigh = 0 /\ quantBest = NoBlob /\ quantI = 0
    /\ effMime = "" /\ qOnly = NoBlob
    /\ lo = 0 /\ hi = 0 /\ best = NoBlob /\ fitI = 0 /\ caller = "" /\ fitRet = NoBlob
    /\ fitEncodes = 0
    /\ result = NoBlob
    /\ probes = {} /\ memo = {}
    /\ nEncodes = 0 /\ nQuant = 0
    /\ run = 0 /\ trace = << >> /\ firstCall = NoCall

NextDimensions == ResizeToDimensions

SpecDimensions == InitDimensions /\ [][NextDimensions]_vars

-----------------------------------------------------------------------------
(* Two equal calls, one after the other, against the same encoder *)

\* step encoders for a raster call: the threshold below minScale, or at 0.3
RasterStepEncoders(c) ==
    LET T == RasterTargetBytes(c.targetKB)
        B == c.bufferKB * KB
    IN  { Encoder("step", th, u, o) :
            th \in {8, 300}, u \in SizeChoices(T, B), o \in SizeChoices(T, B) }

\* the png calls that never reach UPNG.encode
PngCallsUnquantized == { c \in PngCalls : ~(c.useQuantization /\ c.hasUPNG) }

\* encoders that repeat their answer for a repeated request
DeterministicEncoders(c) ==
    IF c \in ScenarioCalls THEN { Product }
    ELSE IF c.fn # "png" THEN RasterStepEncoders(c)
    ELSE IF c \in PngCallsUnquantized THEN { Oracle } \cup StepEncoders(c)
    ELSE StepEncoders(c)

\* the encoder's answers are lost between the calls
AnswersForgotten == {}

\* what the encoder has answered so far: it answers the same in a second call
AnswersGiven == memo \cup probes

InitTwice ==
    /\ cfg \in PngCalls \cup RasterCalls \cup ScenarioCalls
    /\ encoder \in DeterministicEncoders(cfg)
    /\ pc = "start"
    /\ low = 0 /\ high = Unit /\ bestBlob = NoBlob /\ bestScale = Unit /\ i = 0
    /\ canvas = 0 /\ rendered = {}
    /\ quantLow = 0 /\ quantHigh = 0 /\ quantBest = NoBlob /\ quantI = 0
    /\ effMime = "" /\ qOnly = NoBlob
    /\ lo = 0 /\ hi = 0 /\ best = NoBlob /\ fitI = 0 /\ caller = "" /\ fitRet = NoBlob
    /\ fitEncodes = 0
    /\ result = NoBlob
    /\ probes = {} /\ memo = {}
    /\ nEncodes = 0 /\ nQuant = 0
    /\ run = 1 /\ trace = << >> /\ firstCall = NoCall

\* the first call has settled; the same function is called with the same file
\* and options: a new canvas, new locals, the same encoder
CallAgain ==
    /\ run = 1
    /\ pc \in {"done", "rejected"}
    /\ run' = 2
    /\ firstCall' = [pc |-> pc, result |-> result, trace |-> trace, effMime |-> effMime]
    /\ trace' = << >>
    /\ memo' = AnswersGiven
    /\ probes' = {}
    /\ pc' = "start"
    /\ low' = 0 /\ high' = Unit /\ bestBlob' = NoBlob /\ bestScale' = Unit /\ i' = 0
    /\ canvas' = 0 /\ rendered' = {}
    /\ quantLow' = 0 /\ quantHigh' = 0 /\ quantBest' = NoBlob /\ quantI' = 0
    /\ effMime' = "" /\ qOnly' = NoBlob
    /\ lo' = 0 /\ hi' = 0 /\ best' = NoBlob /\ fitI' = 0 /\ caller' = ""
    /\ fitRet' = NoBlob /\ fitEncodes' = 0
    /\ result' = NoBlob
    /\ nEncodes' = 0 /\ nQuant' = 0
    /\ UNCHANGED <<cfg, encoder>>

NextTwice == NextPng \/ NextRaster \/ CallAgain

SpecTwice == InitTwice /\ [][NextTwice]_vars

-----------------------------------------------------------------------------
(* Claims *)

PastPassThrough == cfg.fn = "png" /\ pc = "done" /\ result.kind # "file"

MonotoneStep == encoder.kind = "step" /\ encoder.under <= encoder.over

SomeScaleFits == \E s \in minScale .. Unit : StepSize(encoder, s) <= ceiling

\* C1: scale search existence.  For an encoder whose size is non-decreasing in
\* scale, if some scale in [minScale, 1.0] encodes to at most targetBytes +
\* toleranceBytes, the blob resizePngToTarget returns past its pass-through
\* checks has size at most targetBytes + toleranceBytes.
C1_ScaleSearchExistence ==
    (PastPassThrough /\ MonotoneStep /\ SomeScaleFits) => result.size <= ceiling

\* the same for the calls whose minScale is at least the 0.01 render floor
C1_ExistenceAboveRenderFloor ==
    (PastPassThrough /\ MonotoneStep /\ SomeScaleFits /\ minScale >= PngFloorScale)
        => result.size <= ceiling

\* C7: floor fallback.  When no probe satisfied the size ceiling, the search
\* returns the encode rendered at the floor parameters: at scale exactly
\* minScale for the PNG scale search, at scale minScale with quality
\* minQuality for the quality+scale search, for every minScale > 0.
C7_FloorFallback ==
    [][ /\ (pc = "fallback" /\ pc' = "check") => bestBlob'.scale = minScale
        /\ (pc = "tiny" /\ result'.kind = "lossy")
              => (result'.scale = minScale /\ result'.quality = cfg.minQuality) ]_vars

\* the fallback of the PNG search was taken with a minScale below the render floor
C7_FallbackBelowRenderFloor ==
    pc = "check" /\ bestScale = minScale /\ minScale < PngFloorScale
    /\ bestBlob.scale = PngFloorScale


Delivered(p) == p.size # Failed

InBand(size) == WithinBuffer(size, targetBytes, bufferBytes)

\* the first probe of the PNG scale search (at the guess scale) landed in the band
FirstProbeInBand ==
    \E p \in probes : p.scale = guessScale /\ Delivered(p) /\ InBand(p.size)

\* C2: tolerance short-circuit.  The PNG scale search issues no further encode
\* probe after a probe whose size lies in [targetBytes - toleranceBytes,
\* targetBytes + toleranceBytes]; if the first probe lands in the band the
\* search returns after exactly 1 encode call.
C2_ToleranceShortCircuit ==
    [][ (/\ cfg.fn = "png"
         /\ pc \in {"loop", "fallback"}
         /\ \E p \in probes : Delivered(p) /\ InBand(p.size))
            => nEncodes' = nEncodes ]_vars

\* C2 as amended: the PNG scale search does not stop at a probe in the band.  It
\* leaves its loop only after maxIterations rounds or once high - low <= 1e-3, and
\* tests the band once, after the loop and the floor fallback, on the best blob:
\* a best blob in the band is returned as it is, with no further encode.
C2_BandTestedAfterLoop ==
    /\ (cfg.fn = "png" /\ pc \in {"fallback", "check", "quant", "quantLoop"})
          => (i = cfg.maxIterations \/ high - low <= Epsilon)
    /\ (cfg.fn = "png" /\ pc = "done" /\ probes # {})
          => /\ (i = cfg.maxIterations \/ high - low <= Epsilon)
             /\ InBand(bestBlob.size) => (result = bestBlob /\ nQuant = 0)

\* the first probe was in the band, the search went on probing, and the best
\* blob it ended with, in the band, was returned although quantization was on
C2_WentOnAfterBandProbe ==
    /\ cfg.fn = "png" /\ pc = "done"
    /\ cfg.useQuantization /\ cfg.hasUPNG
    /\ FirstProbeInBand
    /\ nEncodes > 1
    /\ InBand(bestBlob.size) /\ result = bestBlob

\* C3: fitByQuality returns the highest-quality probe among all probes it made
\* whose size is at most targetBytes + bufferBytes (when it does not return
\* early on a tolerance match); a fitting probe at maxQuality is not replaced
\* by a probe of lower quality.
C3_HighestQualityFit ==
    (/\ pc \in {"afterQOnly", "afterFirst", "afterMid"}
     /\ fitRet # NoBlob
     /\ ~InBand(fitRet.size))
        => \A p \in probes :
              (Delivered(p) /\ p.size <= ceiling) => p.quality <= fitRet.quality

\* a call in which the probe at maxQuality fitted and a lower quality came back
C3_MaxQualityProbeReplaced ==
    /\ pc \in {"afterQOnly", "afterFirst", "afterMid"}
    /\ fitRet # NoBlob
    /\ fitRet.quality < cfg.maxQuality
    /\ \E p \in probes : p.quality = cfg.maxQuality /\ Delivered(p) /\ p.size <= ceiling

FitProbes == { p \in probes : Delivered(p) /\ p.size <= targetBytes }

\* C4: largest conformant scale.  In the PNG scale search (guess probe plus
\* bisection loop), whenever a probe had size <= targetBytes, the probe recorded
\* as best is the one with the largest scale among all probes observed with
\* size <= targetBytes, for every encoder.
C4_LargestConformantScale ==
    (cfg.fn = "png" /\ pc = "loop" /\ FitProbes # {})
        => /\ bestBlob # NoBlob
           /\ bestBlob.scale = bestScale
           /\ Probe("canvas", bestScale, 0, bestBlob.size) \in FitProbes
           /\ \A p \in FitProbes : p.scale <= bestScale

\* the loop of an oracle encoder ended with two conformant probes at different
\* scales and an oversized one
C4_LoopEndedWithSeveralFits ==
    /\ cfg.fn = "png" /\ pc = "loop" /\ ~PngLoopCond
    /\ encoder.kind = "oracle"
    /\ \E p, q \in FitProbes : p.scale < q.scale
    /\ \E p \in probes : p.size > targetBytes


Raster == cfg.fn \in {"jpeg", "webp"}

\* C5: parameter clamping.  Every scale at which either search renders a probe
\* lies in [minScale, 1.0] and every quality at which the quality search
\* encodes lies in [minQuality, maxQuality], also for an original file smaller
\* than targetBytes.
C5_ParameterClamping ==
    /\ \A s \in rendered : minScale <= s /\ s <= Unit
    /\ Raster => \A p \in probes :
                    cfg.minQuality <= p.quality /\ p.quality <= cfg.maxQuality

\* a raster call on a file smaller than the target rendered above full size
C5_RenderedAboveFullSize ==
    Raster /\ cfg.fileSize < targetBytes /\ \E s \in rendered : s > Unit

\* C6: monotonic bracket.  In every bisection loop (PNG scale loop, PNG
\* quantization refinement, fitByQuality, raster outer scale loop), the seeding
\* from the guess probe included, low never decreases, high never increases
\* and low <= high.
C6_MonotoneBracket ==
    [][ /\ (pc \in {"guess", "loop", "afterFirst", "afterMid"})
            => (low' >= low /\ high' <= high /\ low' <= high')
        /\ (pc = "quantLoop")
            => (quantLow' >= quantLow /\ quantHigh' <= quantHigh /\ quantLow' <= quantHigh')
        /\ (pc \in {"fitMin", "fitMax", "fitLoop"})
            => (lo' >= lo /\ hi' <= hi /\ lo' <= hi') ]_vars

\* the same for the calls whose raster guess mid0 does not exceed 1.0
C6_MonotoneBracketGuessWithinFullSize ==
    [][ /\ (pc \in {"guess", "loop"} \/ (pc \in {"afterFirst", "afterMid"} /\ mid0 <= Unit))
            => (low' >= low /\ high' <= high /\ low' <= high')
        /\ (pc = "quantLoop")
            => (quantLow' >= quantLow /\ quantHigh' <= quantHigh /\ quantLow' <= quantHigh')
        /\ (pc \in {"fitMin", "fitMax", "fitLoop"})
            => (lo' >= lo /\ hi' <= hi /\ lo' <= hi') ]_vars

\* the raster outer loop runs with its bracket upside down
C6_BracketInverted == Raster /\ pc = "scaleLoop" /\ low > high

\* C8: full-resolution fast path.  Whenever the quality-only search at scale 1.0
\* returns a probe (size <= targetBytes + bufferBytes), that probe is returned
\* at once, within tolerance or not, and no scale below 1.0 is rendered; the
\* scale search is entered only after the full-size search found no fit.
C8_FullResolutionFastPath ==
    Raster =>
       /\ (pc = "afterQOnly" /\ fitRet # NoBlob) => fitRet.size <= ceiling
       /\ qOnly # NoBlob
             => /\ pc = "done"
                /\ result = qOnly
                /\ result.size <= ceiling
                /\ rendered = { Unit }
       /\ (rendered # {} /\ rendered # { Unit }) => qOnly = NoBlob

\* a full-size fit outside the tolerance band was returned
C8_FullSizeFitOutsideBand ==
    /\ Raster /\ pc = "done"
    /\ qOnly # NoBlob /\ ~InBand(qOnly.size)
    /\ result = qOnly

Scenario == cfg \in ScenarioCalls /\ encoder = Product

\* the widest bisection step of the quality search
FirstQualityStep == (cfg.maxQuality - cfg.minQuality) \div 2

\* C9: quality preference scenario.  With size = 1000KB * scale * quality,
\* target 100KB, tolerance 2KB, quality in [0.3, 0.95], scale in [0.05, 1.0],
\* for every original file size the nested search returns a pair whose size is
\* within [98KB, 102KB] and whose quality is within one bisection step of
\* maxQuality.
C9_QualityPreference ==
    (Scenario /\ pc = "done")
        => /\ InBand(result.size)
           /\ result.kind = "lossy" => cfg.maxQuality - result.quality <= FirstQualityStep

\* C9 as amended: in that scenario, for every original file size, the nested
\* search returns a blob whose size is within [98KB, 102KB]; it is the first
\* probe in the band that the search meets, at whatever quality that is.
C9_ScenarioLandsInBand ==
    (Scenario /\ pc = "done")
        => /\ InBand(result.size)
           /\ result.kind = "lossy"
                 => /\ result.size = ProductSize(result.scale, result.quality)
                    /\ minScale <= result.scale /\ result.scale <= Unit
                    /\ cfg.minQuality <= result.quality
                    /\ result.quality <= cfg.maxQuality

\* the scenario returned the probe at minQuality
C9_ReturnedMinQuality ==
    /\ Scenario /\ pc = "done"
    /\ result.kind = "lossy" /\ result.quality = cfg.minQuality
    /\ InBand(result.size)

\* C10: an encode that yields no output never raises: the inner search reports
\* no fit (or keeps its best so far) and resizePngToTarget, resizeJpegToTarget
\* and resizeWebpToTarget still resolve with a blob.
C10_EncodeFailureNeverRaises ==
    /\ pc # "rejected"
    /\ pc = "done" => result # NoBlob

FailedProbes == { p \in probes : ~Delivered(p) }

\* C10 as amended: resizeJpegToTarget and resizeWebpToTarget never reject and
\* resolve with a blob; in them an encode without output makes fitByQuality
\* answer no fit (at minQuality) or its best so far.  resizePngToTarget rejects
\* at the first encode without output.
C10_RasterResolvesPngRejects ==
    /\ Raster => /\ pc # "rejected"
                 /\ pc = "done" => result # NoBlob
                 /\ (pc \in {"afterQOnly", "afterFirst", "afterMid"} /\ FailedProbes # {})
                       => fitRet = best
                 /\ (\E p \in FailedProbes : p.quality = cfg.minQuality)
                       => (pc \in {"afterQOnly", "afterFirst", "afterMid"} /\ fitRet = NoBlob)
    /\ (cfg.fn = "png" /\ FailedProbes # {}) => pc = "rejected"
    /\ (cfg.fn = "png" /\ pc = "done") => result # NoBlob

\* a raster call whose last-resort encode gave no output resolved with the file
C10_ResolvedAfterFailedEncode ==
    /\ Raster /\ pc = "done"
    /\ minScale \in rendered
    /\ result = FileBlob
    /\ ~InBand(cfg.fileSize)

PngQuantizationOn == cfg.useQuantization /\ cfg.hasUPNG

\* the search of the call is still running (it has not returned or rejected)
Searching == pc \notin {"start", "done", "rejected"}

\* C11: best-probe invariant.  In every reachable state of either search, the
\* best-so-far probe (bestBlob in both resizers, best in fitByQuality and in
\* the quantization refinement), if present, has size <= targetBytes; a probe
\* with size in (targetBytes, targetBytes + toleranceBytes] is recorded as best
\* only on a path that returns it at once as a tolerance match.
C11_BestProbeUnderTarget ==
    /\ (cfg.fn = "png" /\ pc \in {"guess", "loop"} /\ bestBlob # NoBlob)
          => bestBlob.size <= targetBytes
    /\ (pc = "quantLoop" /\ quantBest # NoBlob) => quantBest.size <= targetBytes
    /\ (pc \in {"fitMin", "fitMax", "fitLoop"} /\ best # NoBlob)
          => best.size <= targetBytes
    /\ (pc \in {"afterQOnly", "afterFirst", "afterMid"} /\ best # NoBlob
          /\ best.size > targetBytes)
          => (fitRet = best /\ InBand(best.size))
    /\ (Raster /\ Searching /\ bestBlob # NoBlob) => bestBlob.size <= targetBytes
    /\ (Raster /\ pc = "done" /\ bestBlob # NoBlob /\ bestBlob.size > targetBytes)
          => (result = bestBlob /\ InBand(bestBlob.size))

\* the same with the raster bestBlob left out: the best of the PNG loop, of the
\* quantization refinement and of fitByQuality
C11_BestUnderTargetInnerSearches ==
    /\ (cfg.fn = "png" /\ pc \in {"guess", "loop"} /\ bestBlob # NoBlob)
          => bestBlob.size <= targetBytes
    /\ (pc = "quantLoop" /\ quantBest # NoBlob) => quantBest.size <= targetBytes
    /\ (pc \in {"fitMin", "fitMax", "fitLoop"} /\ best # NoBlob)
          => best.size <= targetBytes
    /\ (pc \in {"afterQOnly", "afterFirst", "afterMid"} /\ best # NoBlob
          /\ best.size > targetBytes)
          => (fitRet = best /\ InBand(best.size))

\* the raster loop runs on with a best blob above targetBytes, taken from the
\* initial-guess probe
C11_SearchGoesOnWithBestAboveTarget ==
    /\ Raster /\ pc = "fitMin" /\ caller = "mid"
    /\ bestBlob # NoBlob /\ bestBlob.size > targetBytes
    /\ bestBlob.scale = mid0

\* C12: refinement is optional.  When useQuantization is false or no UPNG
\* encoder is present, resizePngToTarget returns exactly the best blob of the
\* scale search (or its floor fallback) and performs no render or encode after
\* the scale search ends.
C12_RefinementOptional ==
    /\ [](  (cfg.fn = "png" /\ ~PngQuantizationOn)
              => /\ pc \notin {"quant", "quantLoop"}
                 /\ nQuant = 0
                 /\ (pc = "done" /\ result.kind # "file")
                       => (result = bestBlob /\ result.kind = "png") )
    /\ [][ (cfg.fn = "png" /\ ~PngQuantizationOn /\ pc = "check")
              => /\ pc' = "done"
                 /\ result' = bestBlob
                 /\ nEncodes' = nEncodes
                 /\ canvas' = canvas
                 /\ rendered' = rendered ]_vars

\* a call with UPNG present and useQuantization false returned a best blob
\* outside the band
C12_ReturnedUnrefinedOutsideBand ==
    /\ cfg.fn = "png" /\ pc = "done"
    /\ cfg.hasUPNG /\ ~cfg.useQuantization
    /\ result = bestBlob /\ result.kind = "png"
    /\ ~InBand(result.size)
    /\ nQuant = 0

Settled == pc \in {"done", "rejected"}

IsPrefix(a, b) == Len(a) <= Len(b) /\ \A k \in 1 .. Len(a) : a[k] = b[k]

NotEnlarge == cfg.fn = "dimensions" /\ cfg.fitMode = "not-enlarge" /\ pc # "start"

\* out is within half a pixel of x * f
ScaledBy(x, f, out) ==
    /\ 2 * (out * f.den - x * f.num) <= f.den
    /\ 2 * (x * f.num - out * f.den) <= f.den

\* f is the smaller of targetWidth / naturalWidth and targetHeight / naturalHeight
IsMinFactor(f, t) ==
    /\ f \in { Fraction(t.width, cfg.naturalWidth), Fraction(t.height, cfg.naturalHeight) }
    /\ f.num * cfg.naturalWidth <= t.width * f.den
    /\ f.num * cfg.naturalHeight <= t.height * f.den

\* C14: not-enlarge never upscales.  For resizeToDimensions with fitMode
\* 'not-enlarge' and any positive target and source dimensions, the canvas
\* width is <= the natural width and its height <= the natural height; when
\* the source exceeds the target box in some dimension, both dimensions are
\* scaled by the same factor min(targetWidth / naturalWidth, targetHeight /
\* naturalHeight), rounded to whole pixels, and the result fits inside the
\* target box.
C14_NotEnlargeNeverUpscales ==
    NotEnlarge =>
       LET t == TargetSize(cfg)
       IN  /\ canvas.width <= cfg.naturalWidth
           /\ canvas.height <= cfg.naturalHeight
           /\ (cfg.naturalWidth > t.width \/ cfg.naturalHeight > t.height)
                 => /\ canvas.width <= t.width
                    /\ canvas.height <= t.height
                    /\ \E f \in { Fraction(t.width, cfg.naturalWidth),
                                  Fraction(t.height, cfg.naturalHeight) } :
                          /\ IsMinFactor(f, t)
                          /\ ScaledBy(cfg.naturalWidth, f, canvas.width)
                          /\ ScaledBy(cfg.naturalHeight, f, canvas.height)
           /\ (cfg.naturalWidth <= t.width /\ cfg.naturalHeight <= t.height)
                 => canvas = Size(cfg.naturalWidth, cfg.naturalHeight)

\* a source wider than the box and lower than the box was scaled down by the
\* width factor, its height rounded
C14_ScaledDownByWidth ==
    /\ NotEnlarge /\ pc = "done"
    /\ cfg.resizeMode = "preset"
    /\ cfg.naturalWidth > cfg.width /\ cfg.naturalHeight < cfg.height
    /\ canvas.width = cfg.width
    /\ canvas.height < cfg.naturalHeight
    /\ canvas.height * cfg.naturalWidth # cfg.naturalHeight * cfg.width

FitReturned == pc \in {"afterQOnly", "afterFirst", "afterMid"} /\ fitRet # NoBlob

\* C15: a tolerance match is never lost in the quality+scale search.  If an
\* inner quality search of resizeRasterToTarget (at full size, at the
\* initial-guess scale, or at a loop midpoint) answers a blob whose size is
\* within [targetBytes - bufferBytes, targetBytes + bufferBytes], the blob
\* finally returned is within that band: the answer is returned or kept as
\* best, a best blob within the band stays within the band, and a best blob
\* within the band is what a return delivers.
C15_ToleranceMatchKept ==
    [][ /\ (Raster /\ FitReturned /\ InBand(fitRet.size))
              => \/ pc' = "done" /\ InBand(result'.size)
                 \/ pc' # "done" /\ bestBlob' # NoBlob /\ InBand(bestBlob'.size)
        /\ (Raster /\ bestBlob # NoBlob /\ InBand(bestBlob.size))
              => /\ bestBlob' # NoBlob /\ InBand(bestBlob'.size)
                 /\ pc' = "done" => InBand(result'.size) ]_vars

\* the same for the full-size and the loop-midpoint searches alone: their
\* answer within the band is returned at once
C15_MatchReturnedOutsideGuess ==
    [][ (Raster /\ FitReturned /\ pc # "afterFirst" /\ InBand(fitRet.size))
            => (pc' = "done" /\ result' = fitRet) ]_vars

\* the initial-guess search at minScale answered within the band, and the call
\* returned a blob outside the band
C15_GuessMatchLost ==
    /\ Raster /\ pc = "done"
    /\ mid0 = minScale
    /\ \E p \in memo : p.scale = mid0 /\ Delivered(p) /\ InBand(p.size)
    /\ result.kind = "lossy" /\ ~InBand(result.size)

\* encodes of the PNG scale search are counted up to the quantization refinement
InScaleSearch == cfg.fn = "png" /\ nQuant = 0 /\ pc # "quantLoop"

\* steps a png call can still take: the phases left, then the rounds left in
\* the loop it is in
PngStepsLeft ==
    LET rounds == cfg.maxIterations + 2
    IN  CASE pc = "start"     -> 6 * rounds
          [] pc = "guess"     -> 5 * rounds
          [] pc = "loop"      -> 4 * rounds + 1 + (cfg.maxIterations - i)
          [] pc = "fallback"  -> 4 * rounds
          [] pc = "check"     -> 3 * rounds
          [] pc = "quant"     -> 2 * rounds
          [] pc = "quantLoop" -> rounds + (cfg.maxIterations - quantI)
          [] OTHER            -> 0

\* steps one fitByQuality call can still take, its return to the caller included
FitStepsLeft ==
    CASE pc = "fitMin"  -> cfg.qualityIterations + 4
      [] pc = "fitMax"  -> cfg.qualityIterations + 3
      [] pc = "fitLoop" -> cfg.qualityIterations - fitI + 2
      [] OTHER          -> 1

\* steps a raster call can still take: the rounds of the outer loop left, each
\* worth a whole fitByQuality call, after the full-size and the initial-guess call
RasterStepsLeft ==
    LET call == cfg.qualityIterations + 6
        loop == (cfg.scaleIterations + 1) * call
    IN  CASE Settled           -> 0
          [] pc = "start"      -> loop + 2 * call + 4
          [] pc = "mimeTest"   -> loop + 2 * call + 3
          [] pc = "scaleLoop"  -> (cfg.scaleIterations - i) * call + call + 1
          [] pc = "tiny"       -> 1
          [] caller = "qOnly"  -> loop + call + 2 + FitStepsLeft
          [] caller = "first"  -> loop + 2 + FitStepsLeft
          [] OTHER             -> (cfg.scaleIterations - i) * call + 2 + FitStepsLeft

StepsLeft == IF cfg.fn = "png" THEN PngStepsLeft ELSE RasterStepsLeft

\* a call that has not settled can take a step.  Where the step computes the
\* guess scale it is spelled out: the encoder answers the guess probe, and the
\* two continuations after fitByQuality have no condition.
CanStep ==
    \/ Settled
    \/ pc = "guess" /\ EncodeOutcomes(guessScale, 0) # {}
    \/ pc \in {"afterQOnly", "afterFirst"}
    \/ pc \notin {"guess", "afterQOnly", "afterFirst"} /\ ENABLED Next

\* C16: bounded termination.  Every search invocation terminates for every
\* encoder behaviour (a call that has not settled can take a step, and every
\* step uses up a bounded budget); the PNG scale search performs at most
\* maxIterations + 2 encode probes (initial guess, at most maxIterations
\* midpoints, at most one floor fallback), one fitByQuality call performs at
\* most iterations + 2 encodes, and the raster outer loop calls fitByQuality at
\* most scaleIterations times after the initial-guess call.
C16_BoundedTermination ==
    /\ [](CanStep /\ StepsLeft >= 0)
    /\ [][StepsLeft' < StepsLeft]_vars
    /\ [](InScaleSearch
             => /\ i <= cfg.maxIterations
                /\ nEncodes <= cfg.maxIterations + 2
                /\ nEncodes <= i + 2)
    /\ [](Raster
             => /\ fitEncodes <= cfg.qualityIterations + 2
                /\ fitI <= cfg.qualityIterations
                /\ i <= cfg.scaleIterations
                /\ caller = "mid" => i < cfg.scaleIterations)

\* a PNG scale search that used its whole budget: the guess, maxIterations > 0
\* midpoints and the floor fallback
C16_WholeBudgetUsed ==
    /\ cfg.fn = "png" /\ pc = "check"
    /\ cfg.maxIterations > 0
    /\ nEncodes = cfg.maxIterations + 2

\* the call returned the blob of the one-shot quantization after the scale search
OneShotQuantReturned ==
    cfg.fn = "png" /\ pc = "done" /\ result.kind = "quant" /\ nQuant = 1

\* C17: quantization acts on the best render.  When resizePngToTarget runs the
\* one-shot palette quantization after the scale search and returns its
\* result, the shared canvas holds the image rendered at bestScale (the scale
\* of the recorded best blob): the returned blob is the quantization of the
\* best-scale render, never of a later oversized midpoint probe.
C17_QuantizesBestRender ==
    OneShotQuantReturned
        => /\ canvas = bestScale
           /\ bestBlob.scale = bestScale
           /\ result.scale = bestScale

\* what holds instead: the blob is the quantization of the last render of the
\* scale search
C17_QuantizesLastRender ==
    OneShotQuantReturned
        => /\ result.scale = canvas
           /\ \E p \in probes : p.scale = canvas /\ Delivered(p)

\* the one-shot quantization of an oversized midpoint's render was returned,
\* the best blob being one of a smaller scale
C17_QuantizedOversizedMidpoint ==
    /\ OneShotQuantReturned
    /\ bestBlob.size <= targetBytes
    /\ result.scale > bestBlob.scale
    /\ \E p \in probes : p.scale = result.scale /\ p.size > targetBytes

\* T = min(200 * 1024, max(10 * 1024, targetKB * 1024))
ClampedTarget == Min(200 * 1024, Max(10 * 1024, cfg.targetKB * 1024))

PassThroughSize == cfg.fileSize <= ClampedTarget + cfg.bufferKB * 1024

\* C18: PNG pass-through.  resizePngToTarget returns the input file itself,
\* having issued no encode probe, exactly when file.size <= T + bufferKB * 1024
\* with T = min(200 * 1024, max(10 * 1024, targetKB * 1024)); for every larger
\* file the returned blob is a newly encoded probe, so a targetKB above 200 or
\* below 10 is served against the clamped target T.
C18_PngPassThrough ==
    cfg.fn = "png" =>
       /\ PassThroughSize => pc \in {"start", "done"}
       /\ (pc = "done" /\ PassThroughSize)
             => (result = FileBlob /\ nEncodes = 0 /\ nQuant = 0 /\ probes = {})
       /\ (pc = "done" /\ ~PassThroughSize)
             => /\ result.kind \in {"png", "quant"}
                /\ nEncodes >= 1
                /\ result.kind = "png"
                      => Probe("canvas", result.scale, 0, result.size) \in probes
       /\ (pc \notin {"start", "done", "rejected"})
             => (targetBytes = ClampedTarget /\ ~PassThroughSize)

\* a file larger than targetKB * 1024 + bufferKB * 1024 was returned as it is,
\* targetKB being below 10
C18_PassedThroughAboveRequestedTarget ==
    /\ cfg.fn = "png" /\ pc = "done"
    /\ result = FileBlob
    /\ cfg.targetKB < 10
    /\ cfg.fileSize > cfg.targetKB * 1024 + cfg.bufferKB * 1024

====
